---- MODULE Spec2Model ----
(***************************************************************************)
(* Nested-set category store of namespace-sets/src/main.rs.                *)
(*                                                                         *)
(* The shared state is the nested_category relation of a PostgreSQL       *)
(* database.  Every run of the binary (a process) first bootstraps the     *)
(* root, then lists, shows or adds a category.  Each diesel call is one    *)
(* SQL statement and one step of the model.  Statements outside            *)
(* connection.transaction autocommit; add_category runs BEGIN .. COMMIT at *)
(* the server's default isolation level, READ COMMITTED: a statement sees  *)
(* the rows committed when it starts plus the transaction's own writes,    *)
(* an UPDATE waits for rows another open transaction has written and then  *)
(* works on their newest committed version.                                *)
(***************************************************************************)
EXTENDS Integers, FiniteSets, Sequences, TLC

\* ------------------------------------------------------------------ bounds
MaxId == 4            \* ids the store hands out (bounds the table's size)
ConcMaxId == 3        \* the same, when runs are concurrent

Procs == {1, 2}       \* concurrent runs of the binary
RootName == "root"
Names == {"root", "A", "B", "C"}
ConcNames == {"root", "A"}

VARIABLES
    table,      \* committed rows of nested_category
    nextId,     \* next value of the id sequence
    history,    \* every committed state the table has been in
    firstRoot,  \* the record the first completed bootstrap returned
    pc,         \* each process's next statement
    arg,        \* the names a process's current call was given
    myRight,    \* add_category's my_right
    targets,    \* ids an UPDATE that had to wait selected from its snapshot
    tx,         \* row versions an open transaction has written (and locks)
    node,       \* the record a lookup by name returned
    ret,        \* the record or rows the last completed call returned
    res         \* how the last call of the process ended

vars == <<table, nextId, history, firstRoot, pc, arg, myRight, targets, tx,
          node, ret, res>>

\* ------------------------------------------------------------ the records
NoCat == [id |-> 0, name |-> "", lft |-> 0, rgt |-> 0]
NoArg == <<"", "">>

NestedCategory(i, n, l, r) == [id |-> i, name |-> n, lft |-> l, rgt |-> r]

Ids(rows) == {r.id : r \in rows}

\* The schema declares no uniqueness of name.
NameIsUnique == FALSE

\* ------------------------------------------------------- the transactions
\* Rows a statement of a transaction with writes w sees over committed rows t.
Visible(t, w) == {r \in t : r.id \notin Ids(w)} \cup w

\* Ids locked by open transactions other than p's.
LockedByOthers(p) == UNION {Ids(tx[q]) : q \in Procs \ {p}}

\* Faulty variant of TxnWrite: the statement commits on its own.
AutocommitWrite(t, w) == Visible(t, w)

\* The committed rows after a statement inside connection.transaction wrote
\* the row versions w: unchanged, w stays private until COMMIT.
TxnWrite(t, w) == t

\* Faulty variant of RolledBack: the writes made so far stay.
KeepPartial(t, w) == Visible(t, w)

\* The committed rows after the transaction is rolled back.
RolledBack(t, w) == t

\* The committed rows after COMMIT.
Committed(t, w) == Visible(t, w)

\* ----------------------------------------------------------- the queries
\* .filter(name.eq(n)): the rows .first() may return.
ByName(rows, n) == {r \in rows : r.name = n}

Contains(a, b) == a.lft < b.lft /\ a.rgt > b.rgt

\* Faulty variant of AncestorRows: the filter on rgt is missing.
AncestorRowsByLft(rows, n) == {r \in rows : r.lft < n.lft}

AncestorRows(rows, n) == {r \in rows : r.lft < n.lft /\ r.rgt > n.rgt}

\* Faulty variant of DescendantRows: the filter on rgt is missing.
DescendantRowsByLft(rows, n) == {r \in rows : r.lft > n.lft}

DescendantRows(rows, n) == {r \in rows : r.lft > n.lft /\ r.rgt < n.rgt}

\* Faulty variant of OrderByLft: descending lft.
OrderByLftDesc(rows) ==
    {s \in [1..Cardinality(rows) -> rows] :
        /\ \A i, j \in 1..Cardinality(rows) : i < j => s[i] # s[j]
        /\ \A i, j \in 1..Cardinality(rows) : i < j => s[i].lft >= s[j].lft}

\* .order(lft): every sequence of the rows in ascending lft.
OrderByLft(rows) ==
    {s \in [1..Cardinality(rows) -> rows] :
        /\ \A i, j \in 1..Cardinality(rows) : i < j => s[i] # s[j]
        /\ \A i, j \in 1..Cardinality(rows) : i < j => s[i].lft <= s[j].lft}

\* find_ancestors, find_descendants as one call over unchanging rows: the
\* sequences the call may return (none: the lookup by name finds no record).
FindAncestors(rows, node_name) ==
    UNION {OrderByLft(AncestorRows(rows, n)) : n \in ByName(rows, node_name)}
FindDescendants(rows, node_name) ==
    UNION {OrderByLft(DescendantRows(rows, n)) : n \in ByName(rows, node_name)}

\* Faulty variant of FindParentFromCategories: min_by_key, the outermost.
FindParentOutermost(categories, child) ==
    {cat \in categories :
        /\ Contains(cat, child)
        /\ \A o \in categories : Contains(o, child) => cat.lft <= o.lft}

\* find_parent_from_categories: the records it may return, none when the set
\* is empty.  max_by_key keeps one record of greatest lft among those that
\* contain the child; which one, when several share that lft, rests on the
\* order the rows were loaded in.
FindParentFromCategories(categories, child) ==
    {cat \in categories :
        /\ Contains(cat, child)
        /\ \A o \in categories : Contains(o, child) => o.lft <= cat.lft}

\* The categories find_parent_from_categories returns a parent for.
HasParent(categories) ==
    {cat \in categories : FindParentFromCategories(categories, cat) # {}}

\* The edges build_graph may draw: parent -> child, by id, for every record
\* find_parent_from_categories may return for the child.
ParentEdges(categories) ==
    UNION {{<<parent.id, cat.id>> :
                parent \in FindParentFromCategories(categories, cat)} :
            cat \in categories}

\* Faulty variant of BuildGraphFrom: the edges run child -> parent.
BuildGraphReversed(categories) ==
    {[nodes |-> Ids(categories), edges |-> {<<e[2], e[1]>> : e \in edges}] :
        edges \in {es \in SUBSET ParentEdges(categories) :
            \A cat \in HasParent(categories) :
                Cardinality({e \in es : e[2] = cat.id}) = 1}}

\* build_graph: the graphs it may build from the loaded categories.  A node
\* per category, keyed by id; one edge parent -> child for every category
\* find_parent_from_categories returns a parent for.
BuildGraphFrom(categories) ==
    {[nodes |-> Ids(categories), edges |-> edges] :
        edges \in {es \in SUBSET ParentEdges(categories) :
            \A cat \in HasParent(categories) :
                Cardinality({e \in es : e[2] = cat.id}) = 1}}

\* ------------------------------------------------------- add_category
\* Faulty variant of RgtTargets: rgt > my_right, the parent is not widened.
RgtTargetsStrict(rows, p) == {r \in rows : r.rgt > p}

\* filter(rgt.ge(my_right)): the rows of the first UPDATE.
RgtTargets(rows, p) == {r \in rows : r.rgt >= p}

\* Faulty variant of LftTargets: the filter of the second UPDATE reads rgt.
LftTargetsByRgt(rows, p) == {r \in rows : r.rgt > p}

\* filter(lft.gt(my_right)): the rows of the second UPDATE.
LftTargets(rows, p) == {r \in rows : r.lft > p}

\* Faulty variant of BumpRgt: rgt + 1.
BumpRgtByOne(rows) == {[r EXCEPT !.rgt = @ + 1] : r \in rows}

\* set(rgt.eq(rgt + 2)), set(lft.eq(lft + 2)).
BumpRgt(rows) == {[r EXCEPT !.rgt = @ + 2] : r \in rows}

\* Faulty variant of BumpLft: lft + 1.
BumpLftByOne(rows) == {[r EXCEPT !.lft = @ + 1] : r \in rows}

BumpLft(rows) == {[r EXCEPT !.lft = @ + 2] : r \in rows}

\* Faulty variant of NewCategory: lft = my_right + 1.
NewCategoryAfter(i, n, p) == NestedCategory(i, n, p + 1, p + 2)

\* Faulty variant of NewCategory: rgt = my_right + 2.
NewCategoryWide(i, n, p) == NestedCategory(i, n, p, p + 2)

\* values(name = new, lft = my_right, rgt = my_right + 1).
NewCategory(i, n, p) == NestedCategory(i, n, p, p + 1)

\* Faulty variant of RootCategory: the interval starts at 0.
RootCategoryFromZero(i, n) == NestedCategory(i, n, 0, 1)

\* values(name = root_name, lft = 1, rgt = 2).
RootCategory(i, n) == NestedCategory(i, n, 1, 2)

\* ------------------------------------------------------------------ Init
Init ==
    /\ table = {}
    /\ nextId = 1
    /\ history = {{}}
    /\ firstRoot = NoCat
    /\ pc = [p \in Procs |-> "idle"]
    /\ arg = [p \in Procs |-> NoArg]
    /\ myRight = [p \in Procs |-> 0]
    /\ targets = [p \in Procs |-> {}]
    /\ tx = [p \in Procs |-> {}]
    /\ node = [p \in Procs |-> NoCat]
    /\ ret = [p \in Procs |-> <<>>]
    /\ res = [p \in Procs |-> ""]

\* The locals of a call are dropped when the call is over.
Reset(p) ==
    /\ arg' = [arg EXCEPT ![p] = NoArg]
    /\ myRight' = [myRight EXCEPT ![p] = 0]
    /\ targets' = [targets EXCEPT ![p] = {}]
    /\ tx' = [tx EXCEPT ![p] = {}]
    /\ node' = [node EXCEPT ![p] = NoCat]

NoteRoot(r) == firstRoot' = IF firstRoot = NoCat THEN r ELSE firstRoot

\* ------------------------------------- create_root_category_if_not_exists
\* main starts; the lookup by name finds a record and returns it.
BootFound(p) ==
    /\ pc[p] \in {"idle", "done"}
    /\ \E r \in ByName(table, RootName) :
        /\ ret' = [ret EXCEPT ![p] = <<r>>]
        /\ NoteRoot(r)
    /\ pc' = [pc EXCEPT ![p] = "dispatch"]
    /\ res' = [res EXCEPT ![p] = ""]
    /\ Reset(p)
    /\ UNCHANGED <<table, nextId, history>>

\* main starts; the lookup finds nothing: create_root_category is next.
BootMissing(p) ==
    /\ pc[p] \in {"idle", "done"}
    /\ ByName(table, RootName) = {}
    /\ pc' = [pc EXCEPT ![p] = "boot_insert"]
    /\ ret' = [ret EXCEPT ![p] = <<>>]
    /\ res' = [res EXCEPT ![p] = ""]
    /\ Reset(p)
    /\ UNCHANGED <<table, nextId, history, firstRoot>>

\* create_root_category: one autocommitted INSERT of (name, 1, 2).
CreateRoot(p, cap) ==
    /\ pc[p] = "boot_insert"
    /\ nextId <= cap
    /\ NameIsUnique => ByName(table, RootName) = {}
    /\ LET r == RootCategory(nextId, RootName) IN
        /\ table' = table \cup {r}
        /\ history' = history \cup {table \cup {r}}
        /\ ret' = [ret EXCEPT ![p] = <<r>>]
        /\ NoteRoot(r)
    /\ nextId' = nextId + 1
    /\ pc' = [pc EXCEPT ![p] = "dispatch"]
    /\ UNCHANGED <<arg, myRight, targets, tx, node, res>>

\* ------------------------------------------------------- list_categories
\* One SELECT of the whole table: main with no argument (build_graph comes
\* next), and after an add.
ListCategories(p) ==
    /\ pc[p] \in {"dispatch", "add_list"}
    /\ ret' = [ret EXCEPT ![p] = <<table>>]
    /\ pc' = [pc EXCEPT ![p] = IF pc[p] = "dispatch" THEN "graph" ELSE "done"]
    /\ res' = [res EXCEPT ![p] = IF pc[p] = "dispatch" THEN "listed" ELSE "added"]
    /\ Reset(p)
    /\ UNCHANGED <<table, nextId, history, firstRoot>>

\* build_graph: one SELECT of the whole table; the graph is computed from it.
BuildGraph(p) ==
    /\ pc[p] = "graph"
    /\ \E graph \in BuildGraphFrom(table) :
        ret' = [ret EXCEPT ![p] = <<table, graph>>]
    /\ pc' = [pc EXCEPT ![p] = "done"]
    /\ res' = [res EXCEPT ![p] = "graphed"]
    /\ UNCHANGED <<table, nextId, history, firstRoot, arg, myRight, targets, tx, node>>

\* --------------------------------------------------------- show_category
\* The lookup of the category: .expect panics when there is none.
ShowMissing(p, NS) ==
    /\ pc[p] = "dispatch"
    /\ \E category \in NS :
        /\ ByName(table, category) = {}
        /\ arg' = [arg EXCEPT ![p] = <<category, "">>]
    /\ pc' = [pc EXCEPT ![p] = "done"]
    /\ res' = [res EXCEPT ![p] = "panic"]
    /\ ret' = [ret EXCEPT ![p] = <<>>]
    /\ UNCHANGED <<table, nextId, history, firstRoot, myRight, targets, tx, node>>

ShowCategory(p, NS) ==
    /\ pc[p] = "dispatch"
    /\ \E category \in NS :
        /\ ByName(table, category) # {}
        /\ arg' = [arg EXCEPT ![p] = <<category, "">>]
    /\ pc' = [pc EXCEPT ![p] = "anc_lookup"]
    /\ ret' = [ret EXCEPT ![p] = <<>>]
    /\ UNCHANGED <<table, nextId, history, firstRoot, myRight, targets, tx, node, res>>

\* find_ancestors, first statement: the lookup of the node by name.  (No row
\* is ever deleted, so the name show_category found is found again.)
AncLookup(p) ==
    /\ pc[p] = "anc_lookup"
    /\ \E n \in ByName(table, arg[p][1]) : node' = [node EXCEPT ![p] = n]
    /\ pc' = [pc EXCEPT ![p] = "anc_range"]
    /\ UNCHANGED <<table, nextId, history, firstRoot, arg, myRight, targets, tx, ret, res>>

\* find_ancestors, second statement: lft < node.lft, rgt > node.rgt, by lft.
AncRange(p) ==
    /\ pc[p] = "anc_range"
    /\ \E s \in OrderByLft(AncestorRows(table, node[p])) : ret' = [ret EXCEPT ![p] = s]
    /\ pc' = [pc EXCEPT ![p] = "desc_lookup"]
    /\ res' = [res EXCEPT ![p] = "ancestors"]
    /\ UNCHANGED <<table, nextId, history, firstRoot, arg, myRight, targets, tx, node>>

\* find_descendants, first statement.
DescLookup(p) ==
    /\ pc[p] = "desc_lookup"
    /\ \E n \in ByName(table, arg[p][1]) : node' = [node EXCEPT ![p] = n]
    /\ pc' = [pc EXCEPT ![p] = "desc_range"]
    /\ ret' = [ret EXCEPT ![p] = <<>>]
    /\ res' = [res EXCEPT ![p] = ""]
    /\ UNCHANGED <<table, nextId, history, firstRoot, arg, myRight, targets, tx>>

\* find_descendants, second statement: lft > node.lft, rgt < node.rgt, by lft.
DescRange(p) ==
    /\ pc[p] = "desc_range"
    /\ \E s \in OrderByLft(DescendantRows(table, node[p])) : ret' = [ret EXCEPT ![p] = s]
    /\ pc' = [pc EXCEPT ![p] = "done"]
    /\ res' = [res EXCEPT ![p] = "descendants"]
    /\ UNCHANGED <<table, nextId, history, firstRoot, arg, myRight, targets, tx, node>>

\* ---------------------------------------------------------- add_category
\* BEGIN, then the lookup of the parent: .expect panics when there is none.
AddParentMissing(p, NS) ==
    /\ pc[p] = "dispatch"
    /\ \E parent \in NS, new \in NS :
        /\ ByName(table, parent) = {}
        /\ arg' = [arg EXCEPT ![p] = <<parent, new>>]
    /\ pc' = [pc EXCEPT ![p] = "done"]
    /\ res' = [res EXCEPT ![p] = "panic"]
    /\ ret' = [ret EXCEPT ![p] = <<>>]
    /\ table' = RolledBack(table, tx[p])
    /\ UNCHANGED <<nextId, history, firstRoot, myRight, targets, tx, node>>

AddLoadParent(p, NS) ==
    /\ pc[p] = "dispatch"
    /\ \E parent \in NS, new \in NS :
        \E parent_node \in ByName(table, parent) :
            /\ arg' = [arg EXCEPT ![p] = <<parent, new>>]
            /\ node' = [node EXCEPT ![p] = parent_node]
            /\ myRight' = [myRight EXCEPT ![p] = parent_node.rgt]
    /\ pc' = [pc EXCEPT ![p] = "shift_rgt"]
    /\ ret' = [ret EXCEPT ![p] = <<>>]
    /\ UNCHANGED <<table, nextId, history, firstRoot, targets, tx, res>>

\* UPDATE .. SET rgt = rgt + 2 WHERE rgt >= my_right, no row of it locked.
AddShiftRgt(p) ==
    /\ pc[p] = "shift_rgt"
    /\ LET hit == RgtTargets(Visible(table, tx[p]), myRight[p]) IN
        /\ Ids(hit) \cap LockedByOthers(p) = {}
        /\ tx' = [tx EXCEPT ![p] = Visible(@, BumpRgt(hit))]
        /\ table' = TxnWrite(table, Visible(tx[p], BumpRgt(hit)))
    /\ pc' = [pc EXCEPT ![p] = "shift_lft"]
    /\ UNCHANGED <<nextId, history, firstRoot, arg, myRight, targets, node, ret, res>>

\* The same UPDATE finds a row another open transaction has written: it has
\* chosen its rows from its snapshot and waits.
AddShiftRgtBlock(p) ==
    /\ pc[p] = "shift_rgt"
    /\ LET hit == RgtTargets(Visible(table, tx[p]), myRight[p]) IN
        /\ Ids(hit) \cap LockedByOthers(p) # {}
        /\ targets' = [targets EXCEPT ![p] = Ids(hit)]
    /\ pc' = [pc EXCEPT ![p] = "shift_rgt_wait"]
    /\ UNCHANGED <<table, nextId, history, firstRoot, arg, myRight, tx, node, ret, res>>

\* The locks are gone: the UPDATE rechecks rgt >= my_right on the newest
\* committed version of each row it had chosen, and updates that version.
AddShiftRgtResume(p) ==
    /\ pc[p] = "shift_rgt_wait"
    /\ targets[p] \cap LockedByOthers(p) = {}
    /\ LET hit == RgtTargets({r \in Visible(table, tx[p]) : r.id \in targets[p]}, myRight[p]) IN
        /\ tx' = [tx EXCEPT ![p] = Visible(@, BumpRgt(hit))]
        /\ table' = TxnWrite(table, Visible(tx[p], BumpRgt(hit)))
    /\ targets' = [targets EXCEPT ![p] = {}]
    /\ pc' = [pc EXCEPT ![p] = "shift_lft"]
    /\ UNCHANGED <<nextId, history, firstRoot, arg, myRight, node, ret, res>>

\* UPDATE .. SET lft = lft + 2 WHERE lft > my_right.
AddShiftLft(p) ==
    /\ pc[p] = "shift_lft"
    /\ LET hit == LftTargets(Visible(table, tx[p]), myRight[p]) IN
        /\ Ids(hit) \cap LockedByOthers(p) = {}
        /\ tx' = [tx EXCEPT ![p] = Visible(@, BumpLft(hit))]
        /\ table' = TxnWrite(table, Visible(tx[p], BumpLft(hit)))
    /\ pc' = [pc EXCEPT ![p] = "insert"]
    /\ UNCHANGED <<nextId, history, firstRoot, arg, myRight, targets, node, ret, res>>

\* INSERT (new, my_right, my_right + 1) RETURNING *.
AddInsert(p, cap) ==
    /\ pc[p] = "insert"
    /\ nextId <= cap
    /\ NameIsUnique => ByName(Visible(table, tx[p]), arg[p][2]) = {}
    /\ LET new_category == NewCategory(nextId, arg[p][2], myRight[p]) IN
        /\ tx' = [tx EXCEPT ![p] = @ \cup {new_category}]
        /\ table' = TxnWrite(table, tx[p] \cup {new_category})
        /\ ret' = [ret EXCEPT ![p] = <<new_category>>]
    /\ nextId' = nextId + 1
    /\ pc' = [pc EXCEPT ![p] = "commit"]
    /\ UNCHANGED <<history, firstRoot, arg, myRight, targets, node, res>>

\* The closure returned Ok: COMMIT.
AddCommit(p) ==
    /\ pc[p] = "commit"
    /\ table' = Committed(table, tx[p])
    /\ history' = history \cup {Committed(table, tx[p])}
    /\ tx' = [tx EXCEPT ![p] = {}]
    /\ pc' = [pc EXCEPT ![p] = "add_list"]
    /\ UNCHANGED <<nextId, firstRoot, arg, myRight, targets, node, ret, res>>

\* A statement of the transaction (or its COMMIT) fails in the store: `?`
\* leaves the closure with Err and the transaction is rolled back.
AddFail(p) ==
    /\ pc[p] \in {"shift_rgt", "shift_rgt_wait", "shift_lft", "insert", "commit"}
    /\ table' = RolledBack(table, tx[p])
    /\ Reset(p)
    /\ res' = [res EXCEPT ![p] = "err:" \o pc[p]]
    /\ ret' = [ret EXCEPT ![p] = <<>>]
    /\ pc' = [pc EXCEPT ![p] = "done"]
    /\ UNCHANGED <<nextId, history, firstRoot>>

\* ------------------------------------------------------------------ Next
\* The steps of a run of the binary, by the path main takes; cap bounds the
\* ids, NS the names given as arguments.
Boot(p, cap) == BootFound(p) \/ BootMissing(p) \/ CreateRoot(p, cap)

List(p) == ListCategories(p) \/ BuildGraph(p)

Show(p, NS) ==
    \/ ShowMissing(p, NS)
    \/ ShowCategory(p, NS)
    \/ AncLookup(p)
    \/ AncRange(p)
    \/ DescLookup(p)
    \/ DescRange(p)

Add(p, NS, cap) ==
    \/ AddParentMissing(p, NS)
    \/ AddLoadParent(p, NS)
    \/ AddShiftRgt(p)
    \/ AddShiftLft(p)
    \/ AddInsert(p, cap)
    \/ AddCommit(p)
    \/ AddFail(p)
    \/ ListCategories(p)

AddWait(p) == AddShiftRgtBlock(p) \/ AddShiftRgtResume(p)

\* Concurrent runs of the binary that add or list.
Next ==
    \E p \in Procs :
        Boot(p, ConcMaxId) \/ Add(p, ConcNames, ConcMaxId) \/ AddWait(p) \/ BuildGraph(p)

Spec == Init /\ [][Next]_vars

\* One run of the binary after another: calls in sequence.
SeqNext == Boot(1, MaxId) \/ List(1) \/ Show(1, Names) \/ Add(1, Names, MaxId)

SeqSpec == Init /\ [][SeqNext]_vars

\* Runs that add (process 1) while runs show a category (process 2).
ReadNext ==
    \/ Boot(1, MaxId) \/ Add(1, ConcNames, MaxId)
    \/ Boot(2, MaxId) \/ Show(2, ConcNames)

ReadSpec == Init /\ [][ReadNext]_vars

\* ---------------------------------------------------------------- claims
Disjoint(a, b) == a.rgt <= b.lft \/ b.rgt <= a.lft
StrictlyNested(a, b) == Contains(a, b) \/ Contains(b, a)
Endpoints(a) == {a.lft, a.rgt}
Nesting(rows) ==
    \A a, b \in rows : a # b => Disjoint(a, b) \/ StrictlyNested(a, b)
Proj(rows) == {<<r.name, r.lft, r.rgt>> : r \in rows}
RowIds(s) == {s[i].id : i \in DOMAIN s}
TxnPcs == {"shift_rgt", "shift_rgt_wait", "shift_lft", "insert", "commit"}

\* C1: when calls follow one another, any two distinct categories have
\* intervals that are disjoint or strictly nested, and share no endpoint.
C1_Nesting ==
    /\ Nesting(table)
    /\ \A a, b \in table : a # b => Endpoints(a) \cap Endpoints(b) = {}

C1_Witness ==
    /\ Cardinality(table) >= 4
    /\ \E a, b, c \in table : Contains(a, b) /\ Disjoint(b, c) /\ a.lft > 1

\* C2: every category has lft < rgt and rgt - lft = 1 + 2 * (the number of
\* categories whose interval lies strictly inside its own).
C2_Width ==
    \A r \in table :
        /\ r.lft < r.rgt
        /\ r.rgt - r.lft = 1 + 2 * Cardinality(DescendantRows(table, r))

C2_Witness ==
    \E r \in table : r.lft > 1 /\ Cardinality(DescendantRows(table, r)) = 2

C3_T0 == {<<"root", 1, 2>>}
C3_T1 == {<<"root", 1, 4>>, <<"A", 2, 3>>}
C3_T2 == {<<"root", 1, 6>>, <<"A", 2, 3>>, <<"B", 4, 5>>}
C3_T3 == {<<"root", 1, 8>>, <<"A", 2, 5>>, <<"C", 3, 4>>, <<"B", 6, 7>>}
C3_Commits(p) == pc[p] = "commit" /\ pc'[p] = "add_list"

\* C3: from a store holding only root [1,2], the commits of
\* add_category(root, A), add_category(root, B), add_category(A, C) leave
\* exactly A [2,3], root [1,4]; then B [4,5], root [1,6], A [2,3]; then
\* C [3,4], A [2,5], root [1,8], B [6,7].
C3_Scenario ==
    [][\A p \in Procs : C3_Commits(p) =>
        /\ (Proj(table) = C3_T0 /\ arg[p] = <<"root", "A">>) => Proj(table') = C3_T1
        /\ (Proj(table) = C3_T1 /\ arg[p] = <<"root", "B">>) => Proj(table') = C3_T2
        /\ (Proj(table) = C3_T2 /\ arg[p] = <<"A", "C">>) => Proj(table') = C3_T3]_vars

C3_Witness ==
    /\ Proj(table) = C3_T3
    /\ \E a, b, c \in table :
        /\ a.name = "A" /\ b.name = "B" /\ c.name = "C"
        /\ a.id < b.id /\ b.id < c.id

C4_Applied(t, p, new) ==
    LET t1 == Visible(t, BumpRgt(RgtTargets(t, p)))
        t2 == Visible(t1, BumpLft(LftTargets(t1, p)))
    IN t2 \cup {new}

\* C4: add_category is all-or-nothing.  While its transaction is open no step
\* changes the committed store, except the COMMIT, which applies the rgt
\* shift, the lft shift and the insert together; a failure leaves the store
\* as it was when the call began.
C4_AllOrNothing ==
    [][\A p \in Procs : pc[p] \in TxnPcs =>
        \/ table' = table /\ pc'[p] # "add_list"
        \/ /\ pc[p] = "commit" /\ pc'[p] = "add_list"
           /\ table' = C4_Applied(table, myRight[p], ret[p][1])
           /\ table' # table]_vars

C4_Witness ==
    \E p \in Procs : res[p] = "err:insert" /\ Cardinality(table) >= 2

\* C5: add_category with a parent name no category bears ends with a
\* NotFound error returned to its caller, and no row is touched: the
\* committed rows and the id sequence are as before.
C5_ParentNotFoundReturned ==
    [][\A p \in Procs :
        (/\ pc[p] = "dispatch" /\ pc'[p] = "done"
         /\ arg'[p][2] # "" /\ ByName(table, arg'[p][1]) = {})
            => /\ res'[p] = "err:not_found"
               /\ table' = table /\ nextId' = nextId /\ tx'[p] = {}]_vars

\* C6: a second bootstrap, at once or after any add_category calls, returns
\* the record the first one returned (same id), and the store holds exactly
\* one record created as the root (name rootName, lft = 1).
C6_BootstrapIdempotent ==
    \A p \in Procs :
        pc[p] = "dispatch" =>
            /\ ret[p][1].id = firstRoot.id
            /\ Cardinality({r \in ByName(table, RootName) : r.lft = 1}) = 1

\* C7: once concurrent add_category calls have committed (no transaction is
\* open), all pairs of categories are disjoint or strictly nested.  (Checked
\* where one record bears the root's name: the second root of C9 and adds
\* that reuse the root's name are left out.)
C7_ConcurrentNesting ==
    (/\ \A p \in Procs : tx[p] = {}
     /\ Cardinality(ByName(table, RootName)) <= 1)
        => \A a, b \in table : a # b => Disjoint(a, b) \/ StrictlyNested(a, b)

\* C8: whatever list_categories (or build_graph) reads while add_category
\* runs concurrently is a committed state of the store: never the shifts
\* without the new category, never one shift without the other.
C8_AtomicRead ==
    \A p \in Procs :
        res[p] \in {"listed", "added", "graphed"} => ret[p][1] \in history

C8_Witness ==
    \E p, q \in Procs :
        /\ pc[q] = "commit" /\ Visible(table, tx[q]) # table
        /\ pc[p] = "graph" /\ ret[p][1] = table

\* C9: under any interleaving of bootstraps, the store holds at most one
\* record created as the root (name rootName, lft = 1).
C9_SingleRoot ==
    Cardinality({r \in table : r.name = RootName /\ r.lft = 1}) <= 1

C10_SetIn(h, n, ids, anc) ==
    \E m \in h :
        /\ m.id = n.id
        /\ ids = Ids(IF anc THEN AncestorRows(h, m) ELSE DescendantRows(h, m))
C10_Clean(p) ==
    \A h \in history : Nesting(h) /\ Cardinality(ByName(h, arg[p][1])) <= 1

\* C10: what find_ancestors / find_descendants returns, while add_category
\* calls commit, is the ancestor / descendant set of the named category in
\* some one committed state.  (Checked where every committed state has been
\* properly nested and the name given has never named two records, so no
\* trace rests on C9's second root or on a duplicated name.)
C10_ConsistentSnapshot ==
    \A p \in Procs :
        /\ (res[p] = "ancestors" /\ C10_Clean(p)) =>
            \E h \in history : C10_SetIn(h, node[p], RowIds(ret[p]), TRUE)
        /\ (res[p] = "descendants" /\ C10_Clean(p)) =>
            \E h \in history : C10_SetIn(h, node[p], RowIds(ret[p]), FALSE)

IsRoot(r) == r.id = firstRoot.id
Innermost(rows, a, b) ==
    Contains(a, b) /\ ~\E m \in rows : Contains(a, m) /\ Contains(m, b)

\* C11: over the full table of any state that bootstraps and add_category
\* calls made in sequence reach, find_parent_from_categories returns none for
\* the root and, for every other category, exactly one record: the innermost
\* of those that strictly contain the child, the one of greatest lft.
C11_FindParent ==
    \A r \in table :
        IF IsRoot(r)
        THEN FindParentFromCategories(table, r) = {}
        ELSE \E a \in table :
            /\ FindParentFromCategories(table, r) = {a}
            /\ Innermost(table, a, r)
            /\ \A o \in AncestorRows(table, r) \ {a} : o.lft < a.lft

C11_Witness ==
    \E p \in Procs :
        /\ res[p] = "graphed"
        /\ \E r, a \in ret[p][1] :
            /\ <<a.id, r.id>> \in ret[p][2].edges
            /\ Cardinality(AncestorRows(table, r)) >= 2
            /\ ~IsRoot(a)

SeqRows(s) == {s[i] : i \in DOMAIN s}
SeqNames(s) == [i \in DOMAIN s |-> s[i].name]
Ascending(s) == \A i, j \in DOMAIN s : i < j => s[i].lft < s[j].lft

\* C12: find_ancestors returns exactly the categories that strictly contain
\* the named one, each once, in ascending lft, which is root first: the first
\* is the root, each is the find_parent of the next, the last is the
\* find_parent of the named category; none for the root.  In the state root
\* [1,8], A [2,5], C [3,4], B [6,7], find_ancestors(C) = [root, A].
C12_Ancestors ==
    \A p \in Procs :
        res[p] = "ancestors" =>
            LET s == ret[p]
                n == node[p]
            IN  /\ SeqRows(s) = {r \in table : Contains(r, n)}
                /\ Len(s) = Cardinality(SeqRows(s))
                /\ Ascending(s)
                /\ IsRoot(n) <=> s = <<>>
                /\ s # <<>> =>
                    /\ IsRoot(s[1])
                    /\ FindParentFromCategories(table, n) = {s[Len(s)]}
                /\ \A i \in 1..(Len(s) - 1) :
                    FindParentFromCategories(table, s[i + 1]) = {s[i]}
                /\ (Proj(table) = C3_T3 /\ n.name = "C")
                    => SeqNames(s) = <<"root", "A">>

C12_Witness ==
    \E p \in Procs :
        /\ res[p] = "ancestors"
        /\ Proj(table) = C3_T3
        /\ node[p].name = "C"
        /\ Len(ret[p]) = 2

Siblings(rows, a, b) ==
    /\ a # b
    /\ FindParentFromCategories(rows, a) = FindParentFromCategories(rows, b)

\* C13: find_descendants returns exactly the categories strictly contained
\* in the named one, each once, in ascending lft, which is pre-order: a
\* category comes after its parent when the parent is returned too, and the
\* whole subtree of a category comes after it and before its later siblings.
\* In the state root [1,8], A [2,5], C [3,4], B [6,7],
\* find_descendants(root) = [A, C, B].
C13_Descendants ==
    \A p \in Procs :
        res[p] = "descendants" =>
            LET s == ret[p]
                n == node[p]
            IN  /\ SeqRows(s) = {r \in table : Contains(n, r)}
                /\ Len(s) = Cardinality(SeqRows(s))
                /\ Ascending(s)
                /\ \A i, j \in DOMAIN s :
                    s[i] \in FindParentFromCategories(table, s[j]) => i < j
                /\ \A i, j, k \in DOMAIN s :
                    (/\ Siblings(table, s[i], s[j]) /\ i < j
                     /\ Contains(s[i], s[k])) => (i < k /\ k < j)
                /\ (Proj(table) = C3_T3 /\ IsRoot(n))
                    => SeqNames(s) = <<"A", "C", "B">>

C13_Witness ==
    \E p \in Procs :
        /\ res[p] = "descendants"
        /\ Proj(table) = C3_T3
        /\ IsRoot(node[p])
        /\ Len(ret[p]) = 3

DistinctNames(rows) == \A a, b \in rows : a.name = b.name => a = b
Returned(results) == UNION {SeqRows(s) : s \in results}

\* C14: where no two categories share a name, X is among find_ancestors(C)
\* exactly when C is among find_descendants(X), and no category is both
\* among the ancestors and among the descendants of one category.
C14_Duality ==
    DistinctNames(table) =>
        \A c, x \in table :
            /\ x \in Returned(FindAncestors(table, c.name))
                <=> c \in Returned(FindDescendants(table, x.name))
            /\ Returned(FindAncestors(table, c.name))
                \cap Returned(FindDescendants(table, c.name)) = {}

C14_Witness ==
    \E p \in Procs :
        /\ res[p] = "descendants"
        /\ DistinctNames(table)
        /\ ret[p] \in FindDescendants(table, node[p].name)
        /\ ret[p] # <<>>
        /\ Returned(FindAncestors(table, node[p].name)) # {}

\* C15: in every state bootstraps and add_category calls made in sequence
\* reach, the record the bootstrap created is in the store with lft = 1, and
\* its interval strictly contains that of every other category.
C15_RootContainsAll ==
    firstRoot # NoCat =>
        \E root \in table :
            /\ IsRoot(root)
            /\ root.lft = 1
            /\ \A x \in table \ {root} : root.lft < x.lft /\ x.rgt < root.rgt

C15_Witness ==
    \E p \in Procs :
        /\ pc[p] = "add_list"
        /\ Cardinality(table) = 4
        /\ \E root, x \in table :
            /\ IsRoot(root) /\ root.lft = 1 /\ root.rgt = 8
            /\ x.rgt = 7
            /\ x.name = RootName

After(rows, r) == CHOOSE n \in rows : n.id = r.id
Spine(rows, q) == {r \in rows : r.lft < q /\ q <= r.rgt}
C16_Frame(old, new, parent, q) ==
    /\ \A r \in old :
        /\ Cardinality({n \in new : n.id = r.id}) = 1
        /\ After(new, r).name = r.name
        /\ r.rgt < q => After(new, r) = r
        /\ r.lft > q =>
            /\ After(new, r).lft = r.lft + 2
            /\ After(new, r).rgt = r.rgt + 2
        /\ r \in Spine(old, q) <=>
            /\ After(new, r).lft = r.lft
            /\ After(new, r).rgt = r.rgt + 2
    /\ Spine(old, q) = {parent} \cup AncestorRows(old, parent)

\* C16: a committed add_category, with p the rgt its parent had before the
\* transaction, changes no id and no name; leaves every category with
\* rgt < p as it was; adds 2 to both lft and rgt of every category with
\* lft > p; and keeps lft and adds 2 to rgt of exactly the categories with
\* lft < p <= rgt, which are the parent and its ancestors.
C16_AddFrame ==
    [][\A p \in Procs : C3_Commits(p) =>
        /\ node[p] \in table /\ myRight[p] = node[p].rgt
        /\ C16_Frame(table, table', node[p], myRight[p])]_vars

C16_Witness ==
    \E p \in Procs :
        /\ pc[p] = "add_list"
        /\ ~IsRoot(node[p])
        /\ \E r \in table : r.lft > myRight[p] + 1
        /\ \E r \in table : r.id = node[p].id /\ r.rgt = node[p].rgt + 2

C17_LftFirst(t, q, new) ==
    LET t1 == Visible(t, BumpLft(LftTargets(t, q)))
        t2 == Visible(t1, BumpRgt(RgtTargets(t1, q)))
    IN t2 \cup {new}

\* C17: the two shifts of add_category commute.  What a COMMIT leaves is
\* what the lft shift (lft > p) followed by the rgt shift (rgt >= p) and the
\* insert would have left, p being the parent's rgt before the transaction
\* in both; and from the rows any step leaves in the store, for any category
\* as parent, the two orders give the same rows.
C17_ShiftsCommute ==
    [][/\ table' # table =>
            \A parent \in table' :
                C17_LftFirst(table', parent.rgt, NoCat)
                    = C4_Applied(table', parent.rgt, NoCat)
       /\ \A p \in Procs : C3_Commits(p) =>
            table' = C17_LftFirst(table, myRight[p], ret[p][1])]_vars

C17_Witness ==
    \E p \in Procs :
        /\ pc[p] = "commit"
        /\ LftTargets(table, myRight[p]) # {}
        /\ RgtTargets(table, myRight[p]) # {}
        /\ Visible(table, tx[p]) = C17_LftFirst(table, myRight[p], ret[p][1])
        /\ Visible(table, tx[p]) # table \cup {ret[p][1]}

RECURSIVE ReachedFrom(_, _)
ReachedFrom(edges, from) ==
    LET more == from \cup {e[2] : e \in {d \in edges : d[1] \in from}}
    IN IF more = from THEN from ELSE ReachedFrom(edges, more)
C18_Tree(cats, g) ==
    /\ Cardinality(g.nodes) = Cardinality(cats)
    /\ Cardinality(g.edges) = Cardinality(cats) - 1
    /\ \A c \in cats :
        IF IsRoot(c)
        THEN ~\E e \in g.edges : e[2] = c.id
        ELSE \E a \in cats :
            /\ FindParentFromCategories(cats, c) = {a}
            /\ {e \in g.edges : e[2] = c.id} = {<<a.id, c.id>>}
    /\ ReachedFrom(g.edges, {firstRoot.id}) = g.nodes
C18_Grows(old, new, parent, child) ==
    \A g \in BuildGraphFrom(old), h \in BuildGraphFrom(new) :
        /\ h.nodes = g.nodes \cup {child.id}
        /\ h.edges = g.edges \cup {<<parent.id, child.id>>}

\* C18: build_graph over a store of n categories yields n nodes and n - 1
\* edges: for every category but the root one edge, from its find_parent
\* result to it, and none into the root; every node is reached from the
\* root.  The edges are the parents the add_category calls named: each
\* COMMIT adds to the graph of the store the node of the new category and
\* the edge from the parent its lookup resolved, and changes nothing else.
C18_GraphIsTree ==
    [][/\ \A p \in Procs : res[p] = "graphed" => C18_Tree(ret[p][1], ret[p][2])
       /\ \A p \in Procs : C3_Commits(p) =>
            C18_Grows(table, table', node[p], ret[p][1])]_vars

C18_Witness ==
    \E p \in Procs :
        /\ res[p] = "graphed"
        /\ Cardinality(ret[p][2].nodes) = 4
        /\ Cardinality(ret[p][2].edges) = 3
        /\ \E e \in ret[p][2].edges : e[1] # firstRoot.id

ChildrenOf(rows, a) == {c \in rows : a \in FindParentFromCategories(rows, c)}
C19_Appended(old, new, parent, child) ==
    /\ child \in new /\ child.id \notin Ids(old)
    /\ parent \in old
    /\ FindParentFromCategories(new, child) = {After(new, parent)}
    /\ DescendantRows(new, child) = {}
    /\ \A c \in ChildrenOf(new, After(new, parent)) : c.lft <= child.lft
    /\ \A a, b \in old :
        /\ a.lft < b.lft <=> After(new, a).lft < After(new, b).lft
        /\ Contains(a, b) <=> Contains(After(new, a), After(new, b))

\* C19: after a committed add_category(parentName, newName),
\* find_parent_from_categories of the returned record over the full table
\* gives the record the lookup of parentName resolved to; the new category
\* has no descendants and the greatest lft among the children of that parent;
\* among the categories that were there before, the order by lft and the
\* ancestor relation are as they were.
C19_AppendedAsLastChild ==
    [][\A p \in Procs : C3_Commits(p) =>
        C19_Appended(table, table', node[p], ret[p][1])]_vars

C19_Witness ==
    \E p \in Procs :
        /\ pc[p] = "add_list"
        /\ ret[p][1] \in table
        /\ \E a \in FindParentFromCategories(table, ret[p][1]) :
            /\ a.id = node[p].id
            /\ ~IsRoot(a)
            /\ Cardinality(ChildrenOf(table, a)) = 2

AllEndpoints(rows) == UNION {Endpoints(r) : r \in rows}

\* C20: in every state bootstraps and add_category calls made in sequence
\* reach, with n categories, the 2n values of lft and rgt are pairwise
\* distinct and are exactly 1..2n, and the root's rgt is 2n.
C20_DenseEndpoints ==
    LET n == Cardinality(table) IN
        /\ AllEndpoints(table) = 1..(2 * n)
        /\ \A a, b \in table :
            /\ a.lft # b.rgt
            /\ a # b => (a.lft # b.lft /\ a.rgt # b.rgt)
        /\ \A r \in table : IsRoot(r) => r.rgt = 2 * n

C20_Witness ==
    /\ \E p \in Procs : pc[p] = "add_list"
    /\ AllEndpoints(table) = 1..8
    /\ \E r \in table : ~IsRoot(r) /\ r.rgt - r.lft = 5

====
